---------------------------- MODULE Spec2Model ----------------------------
(***************************************************************************)
(* Model of src/app.py: the WebScraper class of the URL discovery tool.    *)
(*                                                                         *)
(* A Python str is a tuple of one-character strings, so that lower(),      *)
(* endswith(), the `in` substring test, urlparse() and urljoin() are       *)
(* computed character by character as the library computes them.  Python's *)
(* None is the tuple <<"None">>, which no str can equal (every element of  *)
(* a str is a single character).                                           *)
(***************************************************************************)
EXTENDS Integers, Sequences, FiniteSets, TLC

(***************************************************************************)
(* Python values                                                           *)
(***************************************************************************)
None == <<"None">>

EmptyStr == <<>>

\* Python truthiness of an Optional[str]: None and "" are both falsy.
Truthy(v) == v # None /\ v # EmptyStr

UpperCase == <<"A","B","C","D","E","F","G","H","I","J","K","L","M",
               "N","O","P","Q","R","S","T","U","V","W","X","Y","Z">>

LowerCase == <<"a","b","c","d","e","f","g","h","i","j","k","l","m",
               "n","o","p","q","r","s","t","u","v","w","x","y","z">>

Digits == {"0","1","2","3","4","5","6","7","8","9"}

Range(s) == {s[i] : i \in 1..Len(s)}

LowerChar(c) ==
    IF \E i \in 1..Len(UpperCase) : UpperCase[i] = c
    THEN LowerCase[CHOOSE i \in 1..Len(UpperCase) : UpperCase[i] = c]
    ELSE c

\* str.lower()
lower(s) == [i \in 1..Len(s) |-> LowerChar(s[i])]

\* str.endswith(suffix)
endswith(s, suffix) ==
    /\ Len(suffix) <= Len(s)
    /\ SubSeq(s, Len(s) - Len(suffix) + 1, Len(s)) = suffix

\* str.startswith(prefix)
startswith(s, prefix) ==
    /\ Len(prefix) <= Len(s)
    /\ SubSeq(s, 1, Len(prefix)) = prefix

\* `sub in s` for strings
contains(s, sub) ==
    \E i \in 1..(Len(s) - Len(sub) + 1) : SubSeq(s, i, i + Len(sub) - 1) = sub

\* s.find(c) for a set of characters, 1-based, searching from index `from`;
\* Len(s) + 1 when there is none.
FindAny(s, chars, from) ==
    IF \E i \in from..Len(s) : s[i] \in chars
    THEN CHOOSE i \in from..Len(s) :
            /\ s[i] \in chars
            /\ \A j \in from..(i - 1) : s[j] \notin chars
    ELSE Len(s) + 1

\* The last index of character c in s, 0 when there is none (str.rfind).
RFind(s, c) ==
    IF \E i \in 1..Len(s) : s[i] = c
    THEN CHOOSE i \in 1..Len(s) : s[i] = c /\ \A j \in (i + 1)..Len(s) : s[j] # c
    ELSE 0

(***************************************************************************)
(* urllib.parse.urlparse, as far as app.py reads its result: scheme,       *)
(* netloc, path, query, fragment, and the ValueError it raises for a       *)
(* netloc with an unbalanced bracket.                                      *)
(***************************************************************************)
SchemeChars == Range(UpperCase) \cup Range(LowerCase) \cup Digits \cup {"+", "-", "."}

Letters == Range(UpperCase) \cup Range(LowerCase)

\* The scheme and what follows it: url[:i].lower(), url[i+1:] when the text
\* before the first colon is a scheme.
SplitScheme(url, colon) ==
    IF /\ colon <= Len(url)
       /\ colon > 1
       /\ url[1] \in Letters
       /\ \A i \in 1..(colon - 1) : url[i] \in SchemeChars
    THEN << lower(SubSeq(url, 1, colon - 1)), SubSeq(url, colon + 1, Len(url)) >>
    ELSE << EmptyStr, url >>

\* _splitnetloc: after "//", the netloc runs to the first of / ? #.
SplitNetloc(rest, delim) ==
    IF startswith(rest, <<"/", "/">>)
    THEN << SubSeq(rest, 3, delim - 1), SubSeq(rest, delim, Len(rest)) >>
    ELSE << EmptyStr, rest >>

\* s.split(c, 1) at index i of the first c (Len(s) + 1: no c, the tail is "").
SplitAt(s, i) == << SubSeq(s, 1, i - 1), SubSeq(s, i + 1, Len(s)) >>

Partition(s, c) == SplitAt(s, FindAny(s, {c}, 1))

ParseQuery(scheme, netloc, fragment, pq) ==
    [ error    |-> ("[" \in Range(netloc)) # ("]" \in Range(netloc)),
      scheme   |-> scheme,
      netloc   |-> netloc,
      path     |-> pq[1],
      query    |-> pq[2],
      fragment |-> fragment ]

ParseFragment(scheme, netloc, uf) ==
    ParseQuery(scheme, netloc, uf[2], Partition(uf[1], "?"))

ParseNetloc(scheme, nr) == ParseFragment(scheme, nr[1], Partition(nr[2], "#"))

ParseScheme(sr) ==
    ParseNetloc(sr[1], SplitNetloc(sr[2], FindAny(sr[2], {"/", "?", "#"}, 3)))

urlparse(url) == ParseScheme(SplitScheme(url, FindAny(url, {":"}, 1)))

\* urllib.parse.urlunparse for the schemes below, all of which take a netloc:
\* empty query and fragment parts are dropped.
urlunparse(scheme, netloc, path, query, fragment) ==
    (IF scheme # EmptyStr THEN scheme \o <<":">> ELSE EmptyStr)
    \o <<"/", "/">> \o netloc \o path
    \o (IF query # EmptyStr THEN <<"?">> \o query ELSE EmptyStr)
    \o (IF fragment # EmptyStr THEN <<"#">> \o fragment ELSE EmptyStr)

\* The schemes of urllib.parse.uses_relative that the modelled URLs use.
UsesRelative == { <<"h","t","t","p">>, <<"f","i","l","e">> }

\* urllib.parse.urljoin(base, url) for a non-empty base and url.  A reference
\* with another scheme is returned as it is; one with a netloc is rebuilt from
\* its own parts; one with no path takes the base's path (and the base's query
\* unless it has its own); a path is resolved against the base path's
\* directory.  No modelled path has "." or ".." segments, which is the one
\* step of the library left out.  error: urlparse raised.
JoinParts(url, b, u, scheme) ==
    IF scheme # b.scheme \/ scheme \notin UsesRelative
    THEN url
    ELSE IF u.netloc # EmptyStr
    THEN urlunparse(scheme, u.netloc, u.path, u.query, u.fragment)
    ELSE IF u.path = EmptyStr
    THEN urlunparse(scheme, b.netloc, b.path,
                    IF u.query = EmptyStr THEN b.query ELSE u.query, u.fragment)
    ELSE urlunparse(scheme, b.netloc,
                    IF startswith(u.path, <<"/">>)
                    THEN u.path
                    ELSE SubSeq(b.path, 1, RFind(b.path, "/")) \o u.path,
                    u.query, u.fragment)

JoinParsed(url, b, u) ==
    IF b.error \/ u.error
    THEN [error |-> TRUE, url |-> EmptyStr]
    ELSE [error |-> FALSE,
          url   |-> JoinParts(url, b, u,
                              IF u.scheme = EmptyStr THEN b.scheme ELSE u.scheme)]

urljoin(base, url) == JoinParsed(url, urlparse(base), urlparse(url))

(***************************************************************************)
(* WebScraper: the URL filter and the domain scope                         *)
(***************************************************************************)
excluded_extensions ==
    { <<".","j","s">>, <<".","c","s","s">>, <<".","p","n","g">>,
      <<".","j","p","g">>, <<".","j","p","e","g">>, <<".","g","i","f">>,
      <<".","s","v","g">>, <<".","i","c","o">>, <<".","w","o","f","f">>,
      <<".","w","o","f","f","2">>, <<".","t","t","f">>, <<".","e","o","t">>,
      <<".","p","d","f">>, <<".","x","m","l">>, <<".","j","s","o","n">>,
      <<".","r","s","s">>, <<".","z","i","p">>, <<".","g","z">> }

excluded_params ==
    { <<"r","e","p","l","y","t","o","c","o","m">>, <<"s","h","a","r","e">>,
      <<"p","r","i","n","t">> }

\* get_domain: the netloc, "" when urlparse raises.
NetlocOf(parsed) == IF parsed.error THEN EmptyStr ELSE parsed.netloc

get_domain(url) == NetlocOf(urlparse(url))

\* is_same_domain, against the scraper's base_domain bd.
is_same_domain(bd, url) ==
    IF ~Truthy(bd) THEN TRUE ELSE get_domain(url) = bd

\* is_valid_url, against the scraper's base_domain bd; False when urlparse
\* raises.  It reads base_domain and assigns nothing.
ValidParsed(bd, url, parsed) ==
    IF parsed.error
    THEN FALSE
    ELSE /\ ~ \E ext \in excluded_extensions : endswith(lower(parsed.path), ext)
         /\ ~ \E param \in excluded_params : contains(lower(parsed.query), param)
         /\ is_same_domain(bd, url)
         /\ "#" \notin Range(url)

is_valid_url(bd, url) == ValidParsed(bd, url, urlparse(url))

(***************************************************************************)
(* The pages of the modelled web.  Hosts are a and b; file:///e is a page  *)
(* whose URL has no host.                                                  *)
(***************************************************************************)
Http(host, rest) == <<"h","t","t","p",":","/","/">> \o host \o rest

uA == Http(<<"a">>, <<"/">>)

uB == Http(<<"a">>, <<"/","b">>)

uC == Http(<<"a">>, <<"/","c">>)

uD == Http(<<"a">>, <<"/","d">>)

\* excluded extension, in upper case
uJs == Http(<<"a">>, <<"/","p",".","J","S">>)

\* excluded query parameter, in mixed case
uShare == Http(<<"a">>, <<"/","?","x","=","S","h","a","r","e">>)

\* another host
uOther == Http(<<"b">>, <<"/">>)

\* no host
uFile == <<"f","i","l","e",":","/","/","/","e">>

\* a reference to a place on the same page
hFrag == <<"#","t">>

\* a relative reference to page d
hRelD == <<"d">>

\* a reference urlparse rejects (unbalanced bracket in the netloc)
hBad == Http(<<"[">>, <<"/">>)

Pages == {uA, uB, uC, uD, uOther, uFile}

\* The anchors a page may carry, in document order: the href attribute of each
\* <a> element, None for an anchor without href.
AnchorLists ==
    { <<>>,
      <<uB, uC>>,
      <<uC, uD>>,
      <<uA, uC>>,
      <<uB, uJs, None, uOther, uB>>,
      <<hFrag, uShare, hBad, EmptyStr, hRelD>> }

\* The webs crawled: pages a, b and c carry any of the anchor lists, page d
\* links back to a, the page without host links to both hosts.
Webs ==
    { [ p \in Pages |->
          CASE p = uA     -> la
            [] p = uB     -> lb
            [] p = uC     -> lc
            [] p = uD     -> <<uA>>
            [] p = uOther -> <<uA>>
            [] p = uFile  -> <<uA, uOther>> ] :
      la \in AnchorLists, lb \in AnchorLists, lc \in AnchorLists }

Seeds == {uA, uFile}

\* The values of get_domain, urljoin and is_valid_url on the modelled urls,
\* computed once: the steps below look them up instead of parsing the same
\* strings again in every state.
Hrefs == UNION { Range(l) : l \in AnchorLists } \cup {uA, uOther}

get_domain_of == [u \in Pages |-> get_domain(u)]

urljoin_of ==
    [p \in Pages |->
        [h \in Hrefs |->
            IF Truthy(h) THEN urljoin(p, h) ELSE [error |-> TRUE, url |-> EmptyStr]]]

Targets == { urljoin_of[p][h].url : p \in Pages, h \in Hrefs }

Scopes == {None} \cup { get_domain(u) : u \in Pages }

is_valid_url_of == [bd \in Scopes |-> [u \in Targets |-> is_valid_url(bd, u)]]

(***************************************************************************)
(* get_meta_data (lines 111-149)                                           *)
(*                                                                         *)
(* The head of a rendered page, as the driver exposes it: title is         *)
(* driver.title; title_elem, desc_elem and img_elem are the lists that     *)
(* find_elements returns for the three selectors, each element with the    *)
(* value of get_attribute("content") (None when the element has no such    *)
(* attribute) and its text.                                                *)
(***************************************************************************)
Element(content, text) == [content |-> content, text |-> text]

PageHead(title, title_elem, desc_elem, img_elem) ==
    [ title     |-> title,
      title_elem |-> title_elem,
      desc_elem |-> desc_elem,
      img_elem  |-> img_elem ]

Whitespace == {" ", "\t", "\n"}

\* str(v): a str is itself, None becomes the four characters of "None".
str(v) == IF v = None THEN <<"N","o","n","e">> ELSE v

lstrip(s) ==
    LET f[i \in 1..Len(s) + 1] ==
            IF i > Len(s) THEN <<>>
            ELSE IF s[i] \in Whitespace THEN f[i + 1]
            ELSE SubSeq(s, i, Len(s))
    IN  f[1]

rstrip(s) ==
    LET f[i \in 0..Len(s)] ==
            IF i = 0 THEN <<>>
            ELSE IF s[i] \in Whitespace THEN f[i - 1]
            ELSE SubSeq(s, 1, i)
    IN  f[Len(s)]

\* str.strip()
strip(s) == rstrip(lstrip(s))

\* `a or b` on Optional[str] (line 125).
Or(a, b) == IF Truthy(a) THEN a ELSE b

\* The accessors of the driver that get_meta_data calls, in the order it calls
\* them; "none" stands for an extraction in which none of them raises.
MetaSteps ==
    { "none", "title", "title_elem", "title_attr",
      "desc_elem", "desc_attr", "img_elem", "img_attr" }

\* Whether get_meta_data on this head reaches the accessor: the title fallback
\* runs only for a falsy title (line 118), get_attribute only on a non-empty
\* list (lines 123, 133, 140).
Reaches(head, step) ==
    CASE step = "none"       -> FALSE
      [] step = "title"      -> TRUE
      [] step = "title_elem" -> ~Truthy(head.title)
      [] step = "title_attr" -> ~Truthy(head.title) /\ head.title_elem # <<>>
      [] step = "desc_elem"  -> TRUE
      [] step = "desc_attr"  -> head.desc_elem # <<>>
      [] step = "img_elem"   -> TRUE
      [] step = "img_attr"   -> head.img_elem # <<>>

\* Line 113.
InitialMetadata(url) ==
    [url |-> url, title |-> EmptyStr, description |-> EmptyStr, image |-> EmptyStr]

\* Line 144.
CleanUp(metadata) == [k \in DOMAIN metadata |-> strip(str(metadata[k]))]

\* Lines 147-149 returning a blank record in place of the partial one.
MetaExceptBlank(metadata) == InitialMetadata(metadata.url)

\* Lines 147-149: the except clause returns metadata as the try block left it.
MetaExcept(metadata) == metadata

\* Lines 136-145.
GetImage(head, metadata, raises) ==
    IF raises = "img_elem" THEN MetaExcept(metadata)
    ELSE IF head.img_elem = <<>> THEN CleanUp(metadata)
    ELSE IF raises = "img_attr" THEN MetaExcept(metadata)
    ELSE CleanUp([metadata EXCEPT !.image = head.img_elem[1].content])

\* Lines 128-134.
GetDescription(head, metadata, raises) ==
    IF raises = "desc_elem" THEN MetaExcept(metadata)
    ELSE IF head.desc_elem = <<>> THEN GetImage(head, metadata, raises)
    ELSE IF raises = "desc_attr" THEN MetaExcept(metadata)
    ELSE GetImage(head,
                  [metadata EXCEPT !.description = head.desc_elem[1].content],
                  raises)

\* Lines 118-126.
GetTitleFallback(head, metadata, raises) ==
    IF Truthy(metadata.title) THEN GetDescription(head, metadata, raises)
    ELSE IF raises = "title_elem" THEN MetaExcept(metadata)
    ELSE IF head.title_elem = <<>> THEN GetDescription(head, metadata, raises)
    ELSE IF raises = "title_attr" THEN MetaExcept(metadata)
    ELSE GetDescription(head,
                        [metadata EXCEPT !.title = Or(head.title_elem[1].content,
                                                      head.title_elem[1].text)],
                        raises)

\* Lines 113-117.
GetTitle(head, metadata, raises) ==
    IF raises = "title" THEN MetaExcept(metadata)
    ELSE GetTitleFallback(head, [metadata EXCEPT !.title = head.title], raises)

\* get_meta_data(driver, url), the driver showing `head` and raising at the
\* accessor `raises` if the extraction reaches it.
get_meta_data(head, url, raises) == GetTitle(head, InitialMetadata(url), raises)

\* The head each page of the modelled web shows.
HeadOf ==
    [ p \in Pages |->
        CASE p = uA ->
               PageHead(<<" ","A"," ">>, <<>>, <<>>, <<>>)
          [] p = uB ->
               PageHead(EmptyStr,
                    << Element(None, <<"h"," ">>) >>,
                    << Element(<<" ","d">>, EmptyStr) >>,
                    << Element(<<"i">>, EmptyStr) >>)
          [] p = uC ->
               PageHead(<<"C">>,
                    <<>>,
                    << Element(None, EmptyStr) >>,
                    <<>>)
          [] p = uD ->
               PageHead(EmptyStr,
                    << Element(<<"o">>, <<"h">>), Element(None, <<"x">>) >>,
                    << Element(EmptyStr, EmptyStr) >>,
                    << Element(None, EmptyStr) >>)
          [] p = uOther ->
               PageHead(EmptyStr, <<>>, <<>>, << Element(<<"i"," ">>, EmptyStr) >>)
          [] p = uFile ->
               PageHead(<<"F">>, <<>>, << Element(<<"d">>, EmptyStr) >>, <<>>) ]

\* The accessor that raises when get_meta_data reads the head of a page: the
\* renderer fails on the image element of page b, on the title element of
\* page d and on the title of the page of the other host.
RaisesOn ==
    [ p \in Pages |->
        CASE p = uB     -> "img_attr"
          [] p = uD     -> "title_attr"
          [] p = uOther -> "title"
          [] OTHER      -> "none" ]

\* get_meta_data on every page, for every accessor that may raise.
get_meta_data_of ==
    [p \in Pages |-> [s \in MetaSteps |-> get_meta_data(HeadOf[p], p, s)]]

\* The largest max_depth configured (main offers 1, 2 and 3; ScrapingConfig
\* takes any integer, 0 included).
MaxDepthCfg == 3

\* The most exceptions the renderer raises in one crawl.
MaxFailures == 1

\* The most crawls run on one WebScraper.
MaxRuns == 2

\* The values of the progress_text argument: the default None, and the
\* placeholder main passes (line 264), an object that is truthy.
StEmpty == <<"st.empty()">>

ProgressTexts == {None, StEmpty}

(***************************************************************************)
(* State                                                                   *)
(***************************************************************************)
VARIABLES
    max_depth,      \* self.config.max_depth
    web,            \* the pages the renderer serves: page |-> its anchors
    seed,           \* the url main passes to the top-level call
    progress_text,  \* the progress_text argument: None or a reporter
    visited_urls,   \* self.visited_urls
    base_domain,    \* self.base_domain
    total_urls,     \* self.total_urls
    stack,          \* the active calls of extract_urls_and_metadata, outermost first
    phase,          \* "idle" before main's call, "running", "done" after it returned
    returned,       \* the list the top-level call returned
    sessions,       \* the number of Chrome drivers not yet quit
    run,            \* the number of top-level calls made on this WebScraper
    fetched,        \* history: each driver.get, in order, with its call's place in the stack
    created,        \* history: each record appended at line 176, in order
    processed,      \* history: the pages whose anchors were enumerated
    called,         \* history: the urls extract_urls_and_metadata was called with
    skipped,        \* history: the urls a call found in visited_urls (line 169)
    failures,       \* history: the exceptions raised so far, as <<kind, url>>
    acquired,       \* history: the calls whose setup_driver returned a driver, each as
                    \*          the urls of the active calls down to it
    reports         \* history: the strings passed to progress_text.text, in order

vars == << max_depth, web, seed, progress_text, visited_urls, base_domain,
           total_urls, stack, phase, returned, sessions, run, fetched, created,
           processed, called, skipped, failures, acquired, reports >>

\* Lines 161-162 with the url's record put into results before the try block.
FrameWithRecord(url, depth) ==
    [ url           |-> url,
      current_depth |-> depth,
      pc            |-> "enter",
      results       |-> << InitialMetadata(url) >>,
      todo          |-> <<>>,
      driver        |-> FALSE ]

\* One call of extract_urls_and_metadata: its arguments, its locals and where
\* it stands.  pc: "enter" (line 155), "page" (line 166), "loop" (line 203),
\* "return" (line 210), "except" (line 212).
Frame(url, depth) ==
    [ url           |-> url,
      current_depth |-> depth,
      pc            |-> "enter",
      results       |-> <<>>,
      todo          |-> <<>>,
      driver        |-> FALSE ]

Top == stack[Len(stack)]

Running(pc) == phase = "running" /\ stack # <<>> /\ Top.pc = pc

SetTop(f) == [stack EXCEPT ![Len(stack)] = f]

\* The call on top, named by the urls of the calls that lead to it: a call's
\* loop passes each discovered url once, so no two calls have the same path.
CallPath == [i \in DOMAIN stack |-> stack[i].url]

CanFail == Len(failures) < MaxFailures

(***************************************************************************)
(* The steps of extract_urls_and_metadata                                  *)
(***************************************************************************)
\* Lines 155-156.
LockScope(bd, url) == IF ~Truthy(bd) THEN get_domain_of[url] ELSE bd

\* Line 158 letting every call through.
TooDeepNever(depth) == FALSE

\* Line 158.
TooDeep(depth) == depth > max_depth

\* Lines 166-167 and 179-182 calling the reporter whether or not one was given.
TextUnguarded(reporter, log, message) == Append(log, message)

\* Lines 166-167 and 179-182: `if progress_text: progress_text.text(...)`.
Text(reporter, log, message) ==
    IF reporter # None THEN Append(log, message) ELSE log

\* Line 167.
Scanning(depth, url) == <<"Scanning Depth", depth, url>>

\* Line 181.
Found(total, url) == <<"Found", total, url>>

\* Line 169 without the membership test: every call fetches its url.
NotVisitedUnchecked(url) == url = url

\* Line 169.
NotVisited(url) == url \notin visited_urls

\* Line 170 leaving the mark to be made after a fetch that succeeded.
AddVisitedOnSuccess(visited, url, ok) == IF ok THEN visited \cup {url} ELSE visited

\* Line 170: the url is marked before driver.get is called, so the mark is
\* made whether or not the fetch succeeds.
AddVisited(visited, url, ok) == visited \cup {url}

\* Line 175: the record get_meta_data returns for the page.
current_page_data(url) == get_meta_data_of[url][RaisesOn[url]]

\* Line 177 counting a record twice.
CountTwice(total) == total + 2

\* Line 177.
Count(total) == total + 1

\* Lines 190-198: one anchor of the loop.  An anchor without href or with an
\* empty one is passed over (line 191); so is an href urljoin rejects (line 199).
AddJoined(acc, href, abs, visited, bd) ==
    IF /\ Truthy(href)
       /\ ~abs.error
       /\ abs.url \notin Range(acc)
       /\ abs.url \notin visited
       /\ is_valid_url_of[bd][abs.url]
    THEN Append(acc, abs.url)
    ELSE acc

AddAnchor(acc, url, href, visited, bd) ==
    AddJoined(acc, href, urljoin_of[url][href], visited, bd)

\* Lines 186-200: the urls the loop adds to discovered_urls, in the order the
\* anchors add them.
DocumentOrder(url, elements, visited, bd) ==
    LET f[i \in 0..Len(elements)] ==
            IF i = 0 THEN <<>>
            ELSE AddAnchor(f[i - 1], url, elements[i], visited, bd)
    IN  f[Len(elements)]

\* Lines 186, 198: discovered_urls is a set.
discovered_urls(url, elements, visited, bd) ==
    Range(DocumentOrder(url, elements, visited, bd))

\* Line 204: the orders in which Python may iterate a set of str (the order
\* follows the strings' hashes, which are salted per process).
IterationOrders(S) ==
    { o \in [1..Cardinality(S) -> S] : \A i, j \in DOMAIN o : o[i] = o[j] => i = j }

\* Line 203 stopping one level early.
ShouldRecurseOneLess(depth) == depth + 1 < max_depth

\* Line 203.
ShouldRecurse(depth) == depth < max_depth

\* Line 206 passing current_depth on unchanged.
ChildDepthSame(depth) == depth

\* Line 206.
ChildDepth(depth) == depth + 1

\* Line 204 as a loop that never leaves its first url.
NextTodoStuck(todo) == todo

\* Line 204: the for loop moves on to the next discovered url.
NextTodo(todo) == Tail(todo)

\* Line 208 putting the child's records before the caller's.
ExtendInFront(results, sub_results) == sub_results \o results

\* Line 208.
Extend(results, sub_results) == results \o sub_results

\* Line 214 returning an empty list in place of the partial results.
ExceptReturnEmpty(results) == <<>>

\* Line 214.
ExceptReturn(results) == results

\* Lines 216-218 with driver.quit() at the end of the try block only.
QuitOnSuccessOnly(f, open) == IF f.driver /\ f.pc # "except" THEN open - 1 ELSE open

\* Lines 216-218: the drivers left after the finally clause of call f.
Finally(f, open) == IF f.driver THEN open - 1 ELSE open

\* The call on top returns value: to its caller (line 205-208), or to main
\* (line 268).
ReturnTo(value) ==
    IF Len(stack) = 1
    THEN /\ stack' = <<>>
         /\ phase' = "done"
         /\ returned' = value
    ELSE /\ stack' = [ SubSeq(stack, 1, Len(stack) - 1) EXCEPT
                         ![Len(stack) - 1].results = Extend(@, value) ]
         /\ UNCHANGED << phase, returned >>

(***************************************************************************)
(* Init: a WebScraper as __init__ leaves it (lines 32-38), for some        *)
(* configuration, web, seed and progress_text.                             *)
(***************************************************************************)
Init ==
    /\ max_depth \in 0..MaxDepthCfg
    /\ web \in Webs
    /\ seed \in Seeds
    /\ progress_text \in ProgressTexts
    /\ visited_urls = {}
    /\ base_domain = None
    /\ total_urls = 0
    /\ stack = <<>>
    /\ phase = "idle"
    /\ returned = <<>>
    /\ sessions = 0
    /\ run = 0
    /\ fetched = <<>>
    /\ created = <<>>
    /\ processed = {}
    /\ called = {}
    /\ skipped = {}
    /\ failures = <<>>
    /\ acquired = {}
    /\ reports = <<>>

\* main, lines 266-270: reset the counter and call the traversal on the seed
\* with current_depth = 1.
Start ==
    /\ phase = "idle"
    /\ phase' = "running"
    /\ total_urls' = 0
    /\ stack' = << Frame(seed, 1) >>
    /\ called' = called \cup {seed}
    /\ run' = run + 1
    /\ UNCHANGED << max_depth, web, seed, progress_text, visited_urls,
                    base_domain, returned, sessions, fetched, created,
                    processed, failures, skipped, acquired, reports >>

\* Lines 266-270 once more on the same WebScraper, after its first crawl has
\* returned: the counter is reset, visited_urls and base_domain are whatever
\* the first crawl left.  The histories start again with the new crawl.
StartAgain ==
    /\ phase = "done"
    /\ run < MaxRuns
    /\ seed' \in Seeds
    /\ phase' = "running"
    /\ total_urls' = 0
    /\ stack' = << Frame(seed', 1) >>
    /\ run' = run + 1
    /\ returned' = <<>>
    /\ fetched' = <<>>
    /\ created' = <<>>
    /\ processed' = {}
    /\ called' = {seed'}
    /\ skipped' = {}
    /\ failures' = <<>>
    /\ acquired' = {}
    /\ reports' = <<>>
    /\ UNCHANGED << max_depth, web, progress_text, visited_urls, base_domain,
                    sessions >>

\* Lines 155-159: lock the scope; a call beyond max_depth returns [].
EnterTooDeep ==
    /\ Running("enter")
    /\ TooDeep(Top.current_depth)
    /\ base_domain' = LockScope(base_domain, Top.url)
    /\ ReturnTo(<<>>)
    /\ UNCHANGED << max_depth, web, seed, progress_text, visited_urls,
                    total_urls, sessions, run, fetched, created, processed,
                    called, failures, skipped, acquired, reports >>

\* Lines 155-167: lock the scope; setup_driver returns a driver; the reporter,
\* if there is one, is told the depth and the url.
EnterSetup ==
    /\ Running("enter")
    /\ ~TooDeep(Top.current_depth)
    /\ base_domain' = LockScope(base_domain, Top.url)
    /\ sessions' = sessions + 1
    /\ acquired' = acquired \cup {CallPath}
    /\ reports' = Text(progress_text, reports,
                       Scanning(Top.current_depth, Top.url))
    /\ stack' = SetTop([Top EXCEPT !.driver = TRUE, !.pc = "page"])
    /\ UNCHANGED << max_depth, web, seed, progress_text, visited_urls,
                    total_urls, phase, returned, run, fetched, created,
                    processed, called, failures, skipped >>

\* Lines 155-165, 212: lock the scope; setup_driver raises, driver stays None.
EnterSetupFails ==
    /\ Running("enter")
    /\ ~TooDeep(Top.current_depth)
    /\ CanFail
    /\ base_domain' = LockScope(base_domain, Top.url)
    /\ stack' = SetTop([Top EXCEPT !.pc = "except"])
    /\ failures' = Append(failures, <<"setup_driver", Top.url>>)
    /\ UNCHANGED << max_depth, web, seed, progress_text, visited_urls,
                    total_urls, phase, returned, sessions, run, fetched,
                    created, processed, called, skipped, acquired, reports >>

\* Lines 169, 210: the url is in visited_urls already.
SkipVisited ==
    /\ Running("page")
    /\ ~NotVisited(Top.url)
    /\ stack' = SetTop([Top EXCEPT !.pc = "return"])
    /\ skipped' = skipped \cup {Top.url}
    /\ UNCHANGED << max_depth, web, seed, progress_text, visited_urls,
                    base_domain, total_urls, phase, returned, sessions, run,
                    fetched, created, processed, called, failures, acquired,
                    reports >>

\* Lines 169-171, 212: the url is marked visited, driver.get raises.
GetFails ==
    /\ Running("page")
    /\ NotVisited(Top.url)
    /\ CanFail
    /\ visited_urls' = AddVisited(visited_urls, Top.url, FALSE)
    /\ fetched' = Append(fetched, [url |-> Top.url, depth |-> Len(stack)])
    /\ failures' = Append(failures, <<"get", Top.url>>)
    /\ stack' = SetTop([Top EXCEPT !.pc = "except"])
    /\ UNCHANGED << max_depth, web, seed, progress_text, base_domain,
                    total_urls, phase, returned, sessions, run, created,
                    processed, called, skipped, acquired, reports >>

\* Lines 169-182: the page is fetched, get_meta_data returns its record (an
\* accessor may raise inside it), the record is appended and counted, the
\* reporter, if there is one, is told the count and the url.
Record(url) ==
    /\ visited_urls' = AddVisited(visited_urls, url, TRUE)
    /\ fetched' = Append(fetched, [url |-> url, depth |-> Len(stack)])
    /\ created' = Append(created, current_page_data(url))
    /\ total_urls' = Count(total_urls)
    /\ reports' = Text(progress_text, reports, Found(Count(total_urls), url))

\* Lines 169-185, 212: the page is fetched and recorded, find_elements raises.
LinksFail ==
    /\ Running("page")
    /\ NotVisited(Top.url)
    /\ CanFail
    /\ Record(Top.url)
    /\ failures' = Append(failures, <<"find_elements", Top.url>>)
    /\ stack' = SetTop([Top EXCEPT
                          !.results = Append(@, current_page_data(Top.url)),
                          !.pc = "except"])
    /\ UNCHANGED << max_depth, web, seed, progress_text, base_domain, phase,
                    returned, sessions, run, processed, called, skipped,
                    acquired >>

\* Lines 169-203: the page is fetched and recorded, its anchors are filtered
\* into discovered_urls, and the loop over discovered_urls is set up if the
\* call is not at max_depth.
Visit(url, document, found) ==
    \E order \in IterationOrders(found) :
        /\ Record(url)
        /\ processed' = processed \cup
               { [ url      |-> url,
                   depth    |-> Top.current_depth,
                   document |-> document,
                   order    |-> order,
                   recursed |-> ShouldRecurse(Top.current_depth) ] }
        /\ stack' = SetTop([Top EXCEPT
               !.results = Append(@, current_page_data(url)),
               !.todo = IF ShouldRecurse(Top.current_depth) THEN order ELSE <<>>,
               !.pc = "loop"])

VisitPage ==
    /\ Running("page")
    /\ NotVisited(Top.url)
    /\ Visit(Top.url,
             DocumentOrder(Top.url, web[Top.url],
                           visited_urls \cup {Top.url}, base_domain),
             discovered_urls(Top.url, web[Top.url],
                             visited_urls \cup {Top.url}, base_domain))
    /\ UNCHANGED << max_depth, web, seed, progress_text, base_domain, phase,
                    returned, sessions, run, called, failures, skipped,
                    acquired >>

\* Lines 204-207: the loop calls the traversal on the next discovered url.
Recurse ==
    /\ Running("loop")
    /\ Top.todo # <<>>
    /\ stack' = Append(SetTop([Top EXCEPT !.todo = NextTodo(@)]),
                       Frame(Head(Top.todo), ChildDepth(Top.current_depth)))
    /\ called' = called \cup {Head(Top.todo)}
    /\ UNCHANGED << max_depth, web, seed, progress_text, visited_urls,
                    base_domain, total_urls, phase, returned, sessions, run,
                    fetched, created, processed, failures, skipped, acquired,
                    reports >>

\* Lines 210, 214, 216-218: the call returns its results, from the end of the
\* try block or from the except clause; finally quits the driver.
Return ==
    /\ phase = "running" /\ stack # <<>>
    /\ \/ Top.pc = "loop" /\ Top.todo = <<>>
       \/ Top.pc = "return"
       \/ Top.pc = "except"
    /\ sessions' = Finally(Top, sessions)
    /\ ReturnTo(IF Top.pc = "except" THEN ExceptReturn(Top.results) ELSE Top.results)
    /\ UNCHANGED << max_depth, web, seed, progress_text, visited_urls,
                    base_domain, total_urls, run, fetched, created, processed,
                    called, failures, skipped, acquired, reports >>

Next ==
    \/ Start
    \/ EnterTooDeep
    \/ EnterSetup
    \/ EnterSetupFails
    \/ SkipVisited
    \/ GetFails
    \/ LinksFail
    \/ VisitPage
    \/ Recurse
    \/ Return

Spec == Init /\ [][Next]_vars

\* The interpreter runs the one thread of the crawl until main's call returns.
FairSpec == Spec /\ WF_vars(Next)

\* The WebScraper used for more than one crawl.
NextOrStartAgain ==
    \/ Start
    \/ StartAgain
    \/ EnterTooDeep
    \/ EnterSetup
    \/ EnterSetupFails
    \/ SkipVisited
    \/ GetFails
    \/ LinksFail
    \/ VisitPage
    \/ Recurse
    \/ Return

RerunSpec == Init /\ [][NextOrStartAgain]_vars

(***************************************************************************)
(* Auxiliary definitions of the properties                                 *)
(***************************************************************************)
UrlsOf(records) == [i \in DOMAIN records |-> records[i].url]

NoDuplicates(seq) == \A i, j \in DOMAIN seq : seq[i] = seq[j] => i = j

Done == phase = "done"

\* The results of the active calls, outermost first.
StackResults ==
    LET f[i \in 0..Len(stack)] ==
            IF i = 0 THEN <<>> ELSE f[i - 1] \o stack[i].results
    IN  f[Len(stack)]

FailedAt(kind) == { f[2] : f \in { g \in Range(failures) : g[1] = kind } }

\* The absolute urls of a page's anchors that have an href urljoin accepts.
LinkTargets(page) ==
    { urljoin(page, h).url :
        h \in { e \in Range(web[page]) : Truthy(e) /\ ~urljoin(page, e).error } }

\* The URL filter as the specification words it, against a scope that is
\* unset (None) or locked to a host.
StatedValid(scope, url) ==
    /\ ~ \E ext \in excluded_extensions : endswith(lower(urlparse(url).path), ext)
    /\ ~ \E param \in excluded_params : contains(lower(urlparse(url).query), param)
    /\ (scope = None \/ urlparse(url).netloc = scope)
    /\ "#" \notin Range(url)

\* The pages within k link hops of the seed, each hop a link to a page that
\* is_valid_url accepts against the scope locked from the seed.
WithinHops(k) ==
    LET r[i \in 0..MaxDepthCfg + 1] ==
            IF i = 0 THEN {seed}
            ELSE r[i - 1] \cup
                 { t \in UNION { LinkTargets(p) : p \in r[i - 1] \cap Pages } :
                     is_valid_url(get_domain(seed), t) }
    IN  IF k < 0 THEN {} ELSE r[k]

(***************************************************************************)
(* C1: the visited set only grows from one state to the next, and the      *)
(* sequence the top-level call returns holds no two records with the same  *)
(* url.                                                                    *)
(***************************************************************************)
C1_VisitedGrowsRecordsDistinct ==
    [][ /\ visited_urls \subseteq visited_urls'
        /\ (phase' = "done" => NoDuplicates(UrlsOf(returned'))) ]_vars

\* A crawl that returned three records or more after a call met a url that an
\* earlier sibling's subtree had visited.
C1_Witness ==
    /\ Done
    /\ skipped # {}
    /\ Len(returned) >= 3

C3_CrawlReturns == (max_depth >= 1) => <>(Done /\ stack = <<>>)

\* A crawl to depth 3 of a web where a and b link to each other and a links to
\* itself has returned.
C3_Witness ==
    /\ Done
    /\ max_depth = 3
    /\ web[uA] = <<uB, uC>>
    /\ web[uB] = <<uA, uC>>
    /\ skipped # {}

C5_OnlyValidInScopeUrls ==
    /\ \A i \in DOMAIN fetched :
          fetched[i].url # seed => StatedValid(get_domain(seed), fetched[i].url)
    /\ \A i \in DOMAIN created :
          created[i].url # seed => StatedValid(get_domain(seed), created[i].url)
    /\ \A i \in DOMAIN returned :
          returned[i].url # seed => StatedValid(get_domain(seed), returned[i].url)

(***************************************************************************)
(* C6: a call whose driver.get raised returns no record, and no record of  *)
(* its url is ever made; the records made so far are, in the order made,   *)
(* the results of the active calls and in the end the returned list; and   *)
(* when the crawl has returned, every url a page's loop was to recurse     *)
(* into was taken up: it is visited, or its call's setup_driver raised.    *)
(***************************************************************************)
C6_FailureIsolated ==
    /\ \A i \in DOMAIN stack :
          (stack[i].pc = "except" /\ stack[i].url \in FailedAt("get"))
              => stack[i].results = <<>>
    /\ \A i \in DOMAIN created : created[i].url \notin FailedAt("get")
    /\ phase = "running" => StackResults = created
    /\ Done => returned = created
    /\ Done => \A p \in processed :
          p.recursed =>
              Range(p.order) \subseteq visited_urls \cup FailedAt("setup_driver")

\* The crawl has returned; driver.get raised on a page other than the seed, and
\* a sibling fetched after it at the same depth is in the result, after the
\* seed's record.
C6_Witness ==
    /\ Done
    /\ \E i, j \in DOMAIN fetched :
          /\ i < j
          /\ fetched[i].url \in FailedAt("get")
          /\ fetched[i].url # seed
          /\ fetched[j].depth = fetched[i].depth
          /\ fetched[j].url \in Range(UrlsOf(returned))
    /\ returned # <<>> /\ returned[1].url = seed

(***************************************************************************)
(* C7: each page's discovered urls are recursed into in the document order *)
(* of its anchors, so the returned list is the pre-order of that order: of *)
(* two urls discovered on one page, the one whose anchor comes first has   *)
(* its record first.  Stated for crawls of a seed with a host, no failure.  *)
(***************************************************************************)
C7_DocumentOrderTraversal ==
    (Done /\ failures = <<>> /\ Truthy(get_domain(seed))) =>
        \A p \in processed :
            \A i, j \in DOMAIN p.document :
                \A m, n \in DOMAIN returned :
                    ( /\ i < j
                      /\ returned[m].url = p.document[i]
                      /\ returned[n].url = p.document[j] ) => m < n

(***************************************************************************)
(* C8: is_valid_url is true exactly when the four conditions hold: no      *)
(* excluded extension ends the lower-cased path, no excluded parameter is  *)
(* in the lower-cased query, the scope is unset or equals the host, and    *)
(* the url has no "#".  Stated for the urls urlparse accepts.              *)
(***************************************************************************)
C8_ValidIffFourConditions ==
    \A url \in Pages \cup {uJs, uShare, uA \o hFrag, uB \o hFrag} :
        is_valid_url(base_domain, url) <=> StatedValid(base_domain, url)

(***************************************************************************)
(* C9: base_domain is set once, to the host of the seed, and no later step *)
(* of the crawl changes it.                                                *)
(***************************************************************************)
C9_ScopeSetOnce ==
    [][ /\ base_domain # None => base_domain' = base_domain
        /\ base_domain' # None => base_domain' = get_domain(seed) ]_vars

(***************************************************************************)
(* C10: the drivers open are exactly those of the active calls that hold   *)
(* one, so a call that has returned has quit its driver whichever way it   *)
(* returned; when the top-level call has returned none is open.            *)
(***************************************************************************)
C10_SessionsReleased ==
    /\ sessions = Cardinality({ i \in DOMAIN stack : stack[i].driver })
    /\ Done => sessions = 0

\* The crawl has returned with no driver open after calls that returned from
\* the except clause (driver.get or find_elements raised), from the skip of a
\* visited url and from the end of the loop.
C10_Witness ==
    /\ Done
    /\ sessions = 0
    /\ (FailedAt("get") \cup FailedAt("find_elements")) # {}
    /\ skipped # {}
    /\ Len(returned) >= 2

(***************************************************************************)
(* Auxiliary definitions of the properties of get_meta_data and of the     *)
(* reporter                                                                *)
(***************************************************************************)
Fields == {"url", "title", "description", "image"}

\* The value each lookup of get_meta_data resolves on a head, before the
\* clean-up of line 144.
ResolvedTitle(head) ==
    IF ~Truthy(head.title) /\ head.title_elem # <<>>
    THEN Or(head.title_elem[1].content, head.title_elem[1].text)
    ELSE head.title

ResolvedDescription(head) ==
    IF head.desc_elem # <<>> THEN head.desc_elem[1].content ELSE EmptyStr

ResolvedImage(head) ==
    IF head.img_elem # <<>> THEN head.img_elem[1].content ELSE EmptyStr

\* The lookup an accessor belongs to: 1 title, 2 description, 3 image.
LookupOf(step) ==
    CASE step \in {"title", "title_elem", "title_attr"} -> 1
      [] step \in {"desc_elem", "desc_attr"}            -> 2
      [] step \in {"img_elem", "img_attr"}              -> 3

\* The record of an extraction that raised at `step`: the lookups finished
\* before it keep what they resolved, the others are empty strings.
PartialRecord(head, url, step) ==
    [ url         |-> url,
      title       |-> IF LookupOf(step) > 1 THEN ResolvedTitle(head) ELSE EmptyStr,
      description |-> IF LookupOf(step) > 2 THEN ResolvedDescription(head)
                      ELSE EmptyStr,
      image       |-> EmptyStr ]

\* A value absent from the page: no matching element, or a matching element
\* without content attribute.
Absent(elems) == elems = <<>> \/ elems[1].content = None

\* On every page, whichever accessor raises, get_meta_data returns the partial
\* record.
PartialOnEveryPage ==
    \A p \in Pages : \A step \in MetaSteps \ {"none"} :
        /\ DOMAIN get_meta_data(HeadOf[p], p, step) = Fields
        /\ Reaches(HeadOf[p], step) =>
              get_meta_data(HeadOf[p], p, step) = PartialRecord(HeadOf[p], p, step)

IsScanning(message) == message[1] = "Scanning Depth"

IsFound(message) == message[1] = "Found"

(***************************************************************************)
(* C11: a top-level crawl with max_depth >= 1 on a fresh scraper returns    *)
(* to main whatever was raised: an exception is handled in the call it was *)
(* raised in, and the call stack empties only by the top-level call        *)
(* returning.  The list returned is empty exactly when setup_driver or     *)
(* driver.get raised for the seed; when the seed was fetched, the list     *)
(* begins with the seed's record.                                          *)
(***************************************************************************)
C11_EmptyIffFailedToBegin ==
    /\ \A i \in DOMAIN stack : stack[i].pc = "except" => i = Len(stack)
    /\ stack = <<>> => phase \in {"idle", "done"}
    /\ (Done /\ max_depth >= 1) =>
          /\ returned = <<>> <=>
                seed \in FailedAt("setup_driver") \cup FailedAt("get")
          /\ (seed \in Range(UrlsOf(fetched)) /\ seed \notin FailedAt("get")) =>
                returned # <<>> /\ returned[1].url = seed

\* The crawl returned the empty list to main after driver.get raised on the
\* seed.
C11_Witness ==
    /\ Done
    /\ max_depth >= 2
    /\ returned = <<>>
    /\ failures = << <<"get", seed>> >>

(***************************************************************************)
(* C12: no url is passed to driver.get twice in one crawl, a url whose     *)
(* fetch raised included: every url is in visited_urls from the moment of  *)
(* its fetch attempt, so a later page that links to it does not discover   *)
(* it again.                                                               *)
(***************************************************************************)
C12_NoUrlFetchedTwice ==
    /\ NoDuplicates(UrlsOf(fetched))
    /\ Range(UrlsOf(fetched)) \subseteq visited_urls
    /\ FailedAt("get") \subseteq visited_urls
    /\ \A p \in processed : p.url \notin FailedAt("get")

\* driver.get raised on a url, and a page enumerated later links to that url
\* without discovering it.
C12_Witness ==
    /\ Done
    /\ \E u \in FailedAt("get") :
          \E p \in processed :
              /\ u \in Range(web[p.url])
              /\ u \notin Range(p.document)
              /\ p.depth < max_depth

(***************************************************************************)
(* C13: get_meta_data returns a record whichever accessor raises: the      *)
(* record carries the url given, what the lookups finished before the      *)
(* failure resolved, and empty strings for the other fields; in the crawl  *)
(* the record of such a page is appended and the call goes on to           *)
(* enumerate the page's anchors.                                           *)
(***************************************************************************)
C13_ExtractionNeverPropagates ==
    /\ PartialOnEveryPage
    /\ \A i \in DOMAIN created :
          Reaches(HeadOf[created[i].url], RaisesOn[created[i].url]) =>
              /\ created[i] = PartialRecord(HeadOf[created[i].url],
                                            created[i].url,
                                            RaisesOn[created[i].url])
              /\ created[i].url \in { p.url : p \in processed }
                                       \cup FailedAt("find_elements")

\* The crawl returned the record of page b, on which the image accessor
\* raised: it has the title and the description, no image, and the links of
\* the page were followed.
C13_Witness ==
    /\ Done
    /\ \E i \in DOMAIN returned :
          /\ returned[i].url = uB
          /\ returned[i].title # EmptyStr
          /\ returned[i].description # EmptyStr
          /\ returned[i].image = EmptyStr
    /\ \E p \in processed : p.url = uB /\ p.recursed /\ p.order # <<>>

(***************************************************************************)
(* C14: every field of every record get_meta_data returned is a str with   *)
(* no whitespace at either end, and a description or image that is absent  *)
(* from the page is the empty string.  Stated for the crawls in which the  *)
(* renderer raised nothing outside get_meta_data.                          *)
(***************************************************************************)
C14_FieldsTrimmedAbsentEmpty ==
    failures = <<>> => \A i \in DOMAIN created :
        /\ \A k \in Fields :
              /\ created[i][k] # None
              /\ strip(created[i][k]) = created[i][k]
        /\ Absent(HeadOf[created[i].url].desc_elem) =>
              created[i].description = EmptyStr
        /\ Absent(HeadOf[created[i].url].img_elem) =>
              created[i].image = EmptyStr

C16_VisitedCallChangesNothing ==
    [][ ( /\ phase = "running"
          /\ stack # <<>>
          /\ Top.url \in visited_urls
          /\ Top.pc \in {"enter", "page", "return"} ) =>
        ( /\ visited_urls' = visited_urls
          /\ total_urls' = total_urls
          /\ base_domain' = base_domain
          /\ fetched' = fetched
          /\ created' = created
          /\ Len(stack') >= Len(stack) => Top'.results = <<>>
          /\ (Len(stack') < Len(stack) /\ Len(stack) > 1) =>
                stack' = SubSeq(stack, 1, Len(stack) - 1)
          /\ (Len(stack') < Len(stack) /\ Len(stack) = 1) =>
                returned' = <<>> ) ]_vars

\* A call that found its url in visited_urls is about to return to the loop
\* of its caller, which holds records already.
C16_Witness ==
    /\ phase = "running"
    /\ Len(stack) >= 2
    /\ Top.pc = "return"
    /\ Top.url \in visited_urls
    /\ stack[Len(stack) - 1].results # <<>>

(***************************************************************************)
(* C17: when the crawl has returned, as many drivers were acquired as      *)
(* fetches were attempted: no call acquires a driver without calling       *)
(* driver.get.  Stated for the crawls in which nothing raised.             *)
(***************************************************************************)
C17_SessionsOnlyForFetches ==
    (Done /\ failures = <<>>) => Cardinality(acquired) = Len(fetched)

(***************************************************************************)
(* C18: a second crawl on the same WebScraper begins with visited_urls     *)
(* empty and base_domain unset, and so, as a crawl on a fresh scraper      *)
(* does, returns the record of its seed first when nothing raised.         *)
(***************************************************************************)
C18_NoCarryOver ==
    /\ ( /\ run >= 2 /\ max_depth >= 1
          /\ phase = "running" /\ Len(stack) = 1 /\ Top.pc = "enter" ) =>
          visited_urls = {} /\ base_domain = None
    /\ (run >= 2 /\ Done /\ failures = <<>> /\ max_depth >= 1) =>
          returned # <<>> /\ returned[1].url = seed

(***************************************************************************)
(* C19: total_urls is the number of records appended so far and at most    *)
(* the size of visited_urls; the url of every record is in visited_urls;   *)
(* when the top-level call has returned, total_urls is the length of the   *)
(* list returned, failed fetches or not.                                   *)
(***************************************************************************)
C19_CounterCountsRecords ==
    /\ total_urls = Len(created)
    /\ total_urls <= Cardinality(visited_urls)
    /\ \A i \in DOMAIN created : created[i].url \in visited_urls
    /\ Done => total_urls = Len(returned)

\* The crawl returned two records or more and counted them, one more url
\* being visited whose fetch raised.
C19_Witness ==
    /\ Done
    /\ FailedAt("get") # {}
    /\ total_urls >= 2
    /\ total_urls = Len(returned)
    /\ total_urls < Cardinality(visited_urls)

(***************************************************************************)
(* C20, as claimed: the drivers open are as many as the active calls that  *)
(* passed the depth check, and never more than max_depth.                  *)
(***************************************************************************)
C20_OpenEqualsCallsPastDepthCheck ==
    /\ sessions = Cardinality({ i \in DOMAIN stack : stack[i].pc # "enter" })
    /\ sessions <= max_depth

(***************************************************************************)
(* C20, amended: the drivers open are as many as the active calls whose    *)
(* setup_driver returned a driver, which are the active calls past the     *)
(* depth check other than a call whose setup_driver raised; a call with a  *)
(* child active holds its driver; and never more than max_depth are open.  *)
(***************************************************************************)
C20_OpenSessionsNested ==
    /\ sessions = Cardinality({ i \in DOMAIN stack : stack[i].driver })
    /\ \A i \in DOMAIN stack :
          /\ stack[i].driver => stack[i].pc # "enter"
          /\ (stack[i].pc # "enter" /\ ~stack[i].driver) =>
                /\ stack[i].pc = "except"
                /\ stack[i].url \in FailedAt("setup_driver")
          /\ i < Len(stack) => stack[i].driver /\ stack[i].pc = "loop"
    /\ sessions <= max_depth

\* Three calls are active, each with its driver open, in a crawl to depth 3.
C20_Witness ==
    /\ max_depth = 3
    /\ Len(stack) = 3
    /\ sessions = 3
    /\ Top.pc = "page"

=============================================================================
